---------------------------- MODULE Spec2Model ----------------------------
(***************************************************************************)
(* Quiz lifecycle of the trivia service: the response validator            *)
(* (TriviaService._parse_and_validate_response), the scoring engine        *)
(* (ScoringService.calculate_score), the quiz registry and attempt history *)
(* (PersistenceService) and the request handlers of main.py.               *)
(*                                                                         *)
(* The specifications of the module:                                       *)
(*   Spec          the service as a state machine (generate / submit)      *)
(*   SpecValidate  the validator applied to bounded raw payloads           *)
(*   SpecScore     calculate_score applied to bounded question/answer lists*)
(*   SpecScoring   Spec and SpecScore together                             *)
(*   SpecPhrase    generate_performance_phrase on bounded scores           *)
(*   SpecExtract   _extract_json_from_content on bounded texts             *)
(*   SpecHistory   save_attempt and the per-user query                     *)
(*   SpecRegistry  concurrent requests on the quiz registry                *)
(*   SpecSave      concurrent save_attempt calls                           *)
(***************************************************************************)
EXTENDS Integers, Sequences, FiniteSets, TLC

VARIABLES
    quizzes,      \* PersistenceService._quizzes: quiz_id -> (questions, topic)
    issued,       \* number of identifiers generate_quiz_id has handed out
    stored,       \* log of the store_quiz calls made so far, oldest first
    attempts,     \* PersistenceService._attempts: user_name -> list of QuizAttempt
    userOrder,    \* key (insertion) order of the _attempts dict
    historyFile,  \* content of data/quiz_history.json (the list under 'attempts')
    pc,           \* position of the generate request in flight ("idle" when none)
    genTopic,     \* topic of the generate request in flight
    genRequests,  \* quiz-generation requests issued by the request in flight or last finished
    genReplies,   \* generator outcomes received by the request in flight or last finished
    clock,        \* number of attempts stamped so far (the reading of datetime.now())
    received,     \* number of requests the service has received
    last,         \* outcome of the most recently finished request
    vPayload,     \* SpecValidate: the raw payload handed to the validator
    vResult,      \* SpecValidate: what the validator returned / raised
    sInput,       \* SpecScore: the (questions, answers) handed to calculate_score
    sResult,      \* SpecScore: what calculate_score returned / raised
    pInput,       \* SpecPhrase: the (topic, score, total, generator behaviour) of a phrase call
    pResult,      \* SpecPhrase: what generate_performance_phrase returned
    eInput,       \* SpecExtract: the content handed to _extract_json_from_content
    eResult,      \* SpecExtract: what _extract_json_from_content returned
    workers,      \* requests running concurrently: thread -> position and locals
    tempFile      \* content of data/quiz_history.json.tmp

vars == <<quizzes, issued, stored, attempts, userOrder, historyFile, pc, genTopic,
          genRequests, genReplies, clock, received, last, vPayload, vResult,
          sInput, sResult, pInput, pResult, eInput, eResult, workers, tempFile>>

serviceVars == <<quizzes, issued, stored, attempts, userOrder, historyFile, pc,
                 genTopic, genRequests, genReplies, clock, received, last>>
validateVars == <<vPayload, vResult>>
scoreVars == <<sInput, sResult>>
phraseVars == <<pInput, pResult>>
extractVars == <<eInput, eResult>>
threadVars == <<workers, tempFile>>

(***************************************************************************)
(* Program constants and bounds.                                           *)
(***************************************************************************)
NumQuestions == 10     \* trivia_service.py:328
NumOptions == 4        \* trivia_service.py:351

MaxExtra == 1          \* payload lengths NumQuestions-MaxExtra .. NumQuestions+MaxExtra
MaxBadPos == 1         \* elements 1..MaxBadPos and the last one vary in shape
MaxScoreLen == 3       \* calculate_score on lists of 0..MaxScoreLen entries (and of 10)
MaxRequests == 3       \* requests (generate or submit) the service receives
MaxTotal == 10         \* generate_performance_phrase on totals 0..MaxTotal
MaxAttempts == 3       \* SpecHistory: attempts saved
MaxThreads == 3        \* SpecRegistry: requests running concurrently
MaxCommentary == 2     \* SpecExtract: pieces of commentary before / after the JSON
MaxSavers == 2         \* SpecSave: submit requests running save_attempt concurrently

None == [none |-> TRUE]

(***************************************************************************)
(* JSON scalars as json.loads produces them.  A value keeps its Python     *)
(* type: t in {"str","int","float","bool","null"}; s is the text of a str, *)
(* n the numeric value of an int, a float (n.0) or a bool (True is 1).     *)
(***************************************************************************)
JStr(s) == [t |-> "str", s |-> s, n |-> 0]
JInt(n) == [t |-> "int", s |-> "", n |-> n]
JFloat(n) == [t |-> "float", s |-> "", n |-> n]
JBool(b) == [t |-> "bool", s |-> "", n |-> IF b THEN 1 ELSE 0]
JNull == [t |-> "null", s |-> "", n |-> 0]

Digit == <<"0", "1", "2", "3", "4", "5", "6", "7", "8", "9">>

\* str(n) of a Python int 0 <= n <= 99
IntStr(n) ==
    IF n < 10 THEN Digit[n + 1]
    ELSE Digit[(n \div 10) + 1] \o Digit[(n % 10) + 1]

IsNum(x) == x.t \in {"int", "float", "bool"}

\* Python ==: numbers (bool included) compare by value, 1 == 1.0 == True;
\* a str equals only the same str; None equals only None.
PyEq(a, b) ==
    IF IsNum(a) /\ IsNum(b) THEN a.n = b.n
    ELSE a.t = b.t /\ a.s = b.s

\* Python `x in lst`
PyIn(x, lst) == \E k \in 1..Len(lst) : PyEq(lst[k], x)

\* Python str(x)
PyStr(x) ==
    CASE x.t = "str" -> x.s
      [] x.t = "int" -> IntStr(x.n)
      [] x.t = "float" -> IntStr(x.n) \o ".0"
      [] x.t = "bool" -> (IF x.n = 1 THEN "True" ELSE "False")
      [] x.t = "null" -> "None"

(***************************************************************************)
(* Raw payloads.  An element of the 'questions' array is either not an     *)
(* object, or an object with some of the three keys; 'options' is a list   *)
(* of scalars or not a list at all.                                        *)
(***************************************************************************)
AllKeys == {"question", "options", "correct_answer"}

OptA == JStr("A")
OptB == JStr("B")
OptC == JStr("C")
OptD == JStr("D")
OptE == JStr("E")

GoodOptions == <<OptA, OptB, OptC, OptD>>

\* the well-formed element at (1-based) position p; texts and answers differ
\* from position to position
BaseElem(p) ==
    [obj |-> TRUE, keys |-> AllKeys,
     question |-> JStr("q" \o IntStr(p)),
     optlist |-> TRUE, options |-> GoodOptions,
     correct_answer |-> GoodOptions[((p - 1) % NumOptions) + 1]]

OptionLists ==
    { GoodOptions,
      <<OptD, OptC, OptB, OptA>>,
      <<OptA, OptB, OptC>>,
      <<OptA, OptB, OptC, OptD, OptE>>,
      <<OptA, OptA, OptB, OptC>>,
      <<JInt(1), JStr("1"), OptB, OptC>>,
      <<JInt(1), JInt(2), JBool(FALSE), JNull>> }

AnswerValues == { OptA, OptE, JStr("a"), JInt(1), JFloat(1), JBool(TRUE) }

\* the shapes the element at position p is drawn from
ElemShapes(p) ==
    LET b == BaseElem(p) IN
       {b, [b EXCEPT !.obj = FALSE], [b EXCEPT !.optlist = FALSE],
        [b EXCEPT !.question = JInt(7)]}
       \cup {[b EXCEPT !.keys = K] : K \in SUBSET AllKeys}
       \cup {[b EXCEPT !.keys = AllKeys \ {"correct_answer"},
                       !.options = <<OptA, OptB, OptC>>]}
       \cup {[b EXCEPT !.options = o, !.correct_answer = c] :
                 o \in OptionLists, c \in AnswerValues}

VariedPositions(n) == (1..MaxBadPos) \cup {n}

\* the arrays of the first p elements: positions in P take every shape, the
\* others are well-formed
RECURSIVE ArraysUpTo(_, _)
ArraysUpTo(p, P) ==
    IF p = 0 THEN {<<>>}
    ELSE {Append(qs, e) : qs \in ArraysUpTo(p - 1, P),
                          e \in IF p \in P THEN ElemShapes(p) ELSE {BaseElem(p)}}

\* the 'questions' arrays of NumQuestions elements
VariedArrays == ArraysUpTo(NumQuestions, VariedPositions(NumQuestions))

\* arrays of a wrong length (all elements well-formed)
OtherLengthArrays ==
    {[p \in 1..n |-> BaseElem(p)] :
        n \in ((NumQuestions - MaxExtra)..(NumQuestions + MaxExtra)) \ {NumQuestions}}

Payload(d, h, l, qs) == [dict |-> d, hasq |-> h, qlist |-> l, questions |-> qs]

RawPayloads ==
    {Payload(TRUE, TRUE, TRUE, qs) : qs \in VariedArrays \cup OtherLengthArrays}
    \cup {Payload(FALSE, FALSE, FALSE, <<>>),
          Payload(TRUE, FALSE, FALSE, <<>>),
          Payload(TRUE, TRUE, FALSE, <<>>)}

(***************************************************************************)
(* models.Question and TriviaService._parse_and_validate_response          *)
(***************************************************************************)
Question(text, options, correct) ==
    [question |-> text, options |-> options, correct_answer |-> correct]

\* Field(..., min_items=4, max_items=4) on Question.options
QuestionModelOk(q) == Len(q.options) = NumOptions

Ok(questions) == [ok |-> TRUE, questions |-> questions, index |-> 0, kind |-> "none"]
Err(index, kind) == [ok |-> FALSE, questions |-> <<>>, index |-> index, kind |-> kind]

\* the per-question checks, in the order of the code; "ok" when all pass
CheckQuestion(q) ==
    IF ~q.obj THEN "not_object"
    ELSE IF "question" \notin q.keys THEN "missing_question"
    ELSE IF "options" \notin q.keys THEN "missing_options"
    ELSE IF "correct_answer" \notin q.keys THEN "missing_correct_answer"
    ELSE IF ~q.optlist THEN "options_not_array"
    ELSE IF Len(q.options) # NumOptions THEN "options_count"
    ELSE IF ~PyIn(q.correct_answer, q.options) THEN "answer_not_in_options"
    ELSE "ok"

\* mutant of MakeQuestion: the options come out in reverse order
MakeQuestionReversed(q) ==
    Question(PyStr(q.question),
             [k \in 1..Len(q.options) |-> PyStr(q.options[Len(q.options) + 1 - k])],
             PyStr(q.correct_answer))

\* Question(question=str(..), options=[str(opt) ..], correct_answer=str(..))
MakeQuestion(q) ==
    Question(PyStr(q.question),
             [k \in 1..Len(q.options) |-> PyStr(q.options[k])],
             PyStr(q.correct_answer))

\* mutant of ErrorIndex: the message carries the 0-based enumerate index
ErrorIndexZeroBased(i) == i

\* the number the error message carries for enumerate index i
ErrorIndex(i) == i + 1

\* for i, q_data in enumerate(questions_data): ... (i is 0-based)
RECURSIVE ValidateFrom(_, _, _)
ValidateFrom(qs, i, acc) ==
    IF i >= Len(qs) THEN Ok(acc)
    ELSE LET q == qs[i + 1]
             k == CheckQuestion(q)
         IN  IF k # "ok" THEN Err(ErrorIndex(i), k)
             ELSE IF ~QuestionModelOk(MakeQuestion(q))
                  THEN Err(ErrorIndex(i), "model_validation")
             ELSE ValidateFrom(qs, i + 1, Append(acc, MakeQuestion(q)))

ParseAndValidate(data) ==
    IF ~data.dict THEN Err(0, "not_json_object")
    ELSE IF ~data.hasq THEN Err(0, "missing_questions_key")
    ELSE IF ~data.qlist THEN Err(0, "questions_not_array")
    ELSE IF Len(data.questions) # NumQuestions THEN Err(0, "question_count")
    ELSE ValidateFrom(data.questions, 0, <<>>)

(***************************************************************************)
(* SpecValidate: the validator on every payload of RawPayloads.            *)
(***************************************************************************)
InitService ==
    /\ quizzes = <<>>
    /\ issued = 0
    /\ stored = <<>>
    /\ attempts = [u \in {"alice", "bob"} |-> <<>>]
    /\ userOrder = <<>>
    /\ historyFile = <<>>
    /\ pc = "idle"
    /\ genTopic = ""
    /\ genRequests = <<>>
    /\ genReplies = <<>>
    /\ clock = 0
    /\ received = 0
    /\ last = None

InitValidateIdle == vPayload = None /\ vResult = None
InitScoreIdle == sInput = None /\ sResult = None
InitPhraseIdle == pInput = None /\ pResult = None
InitExtractIdle == eInput = None /\ eResult = None
InitThreadsIdle == workers = <<>> /\ tempFile = None

InitValidate ==
    /\ InitService /\ InitScoreIdle /\ InitPhraseIdle /\ InitExtractIdle
    /\ InitThreadsIdle
    /\ vPayload \in RawPayloads
    /\ vResult = None

Validate ==
    /\ vResult = None
    /\ vResult' = ParseAndValidate(vPayload)
    /\ UNCHANGED <<vPayload, serviceVars, scoreVars, phraseVars, extractVars, threadVars>>

NextValidate == Validate

SpecValidate == InitValidate /\ [][NextValidate]_vars

(***************************************************************************)
(* ScoringService.calculate_score                                          *)
(***************************************************************************)
QuestionResult(question, selected, correct, is_correct) ==
    [question |-> question, selected |-> selected, correct |-> correct,
     is_correct |-> is_correct]

\* returned (score, results); compared counts the executed comparisons
Scored(score, results, compared) ==
    [ok |-> TRUE, score |-> score, results |-> results, compared |-> compared]

\* raise ValueError("Number of questions and answers must match")
ScoreRaised == [ok |-> FALSE, error |-> "ValueError", compared |-> 0]

Lower(s) == IF s = "A" THEN "a" ELSE IF s = "B" THEN "b" ELSE s

\* mutant of IsCorrect: the comparison folds case
IsCorrectNoCase(selected, correct) == Lower(selected) = Lower(correct)

\* is_correct = selected == correct
IsCorrect(selected, correct) == selected = correct

\* for i, question in enumerate(questions): ...
RECURSIVE ScoreLoop(_, _, _, _, _)
ScoreLoop(questions, answers, i, score, results) ==
    IF i >= Len(questions) THEN Scored(score, results, i)
    ELSE LET question == questions[i + 1]
             selected == answers[i + 1]
             correct == question.correct_answer
             is_correct == IsCorrect(selected, correct)
         IN  ScoreLoop(questions, answers, i + 1,
                       IF is_correct THEN score + 1 ELSE score,
                       Append(results,
                              QuestionResult(question.question, selected,
                                             correct, is_correct)))

calculate_score(questions, answers) ==
    IF Len(questions) # Len(answers) THEN ScoreRaised
    ELSE ScoreLoop(questions, answers, 0, 0, <<>>)

(***************************************************************************)
(* SpecScore: calculate_score on bounded question and answer lists.        *)
(***************************************************************************)
BasePayload == Payload(TRUE, TRUE, TRUE, [p \in 1..NumQuestions |-> BaseElem(p)])

\* the validated question list of the well-formed payload
BaseQuiz == ParseAndValidate(BasePayload).questions

ShortQuestionLists ==
    UNION {{[p \in 1..n |-> Question("q" \o IntStr(p), <<"A", "B", "C", "D">>, c[p])] :
               c \in [1..n -> {"A", "B"}]} : n \in 0..MaxScoreLen}

ShortAnswerLists == UNION {[1..m -> {"A", "B", "a"}] : m \in 0..MaxScoreLen}

\* answer lists for BaseQuiz: right on a chosen set of positions, "E" elsewhere,
\* and the same lists with the last answer dropped or one answer added
FullAnswerLists ==
    {[p \in 1..NumQuestions |-> IF p \in S THEN BaseQuiz[p].correct_answer ELSE "E"] :
        S \in SUBSET (1..NumQuestions)}

MiscountedAnswerLists ==
    LET all == [p \in 1..NumQuestions |-> BaseQuiz[p].correct_answer]
    IN  {SubSeq(all, 1, NumQuestions - 1), Append(all, "A"), <<>>}

ScoreInput(questions, answers) == [questions |-> questions, answers |-> answers]

ScoreInputs ==
    {ScoreInput(q, a) : q \in ShortQuestionLists, a \in ShortAnswerLists}
    \cup {ScoreInput(BaseQuiz, a) : a \in FullAnswerLists \cup MiscountedAnswerLists}

InitScore ==
    /\ InitService /\ InitValidateIdle /\ InitPhraseIdle /\ InitExtractIdle
    /\ InitThreadsIdle
    /\ sInput \in ScoreInputs
    /\ sResult = None

Score ==
    /\ sInput # None
    /\ sResult = None
    /\ sResult' = calculate_score(sInput.questions, sInput.answers)
    /\ UNCHANGED <<sInput, serviceVars, validateVars, phraseVars, extractVars, threadVars>>

NextScore == Score

SpecScore == InitScore /\ [][NextScore]_vars

(***************************************************************************)
(* PersistenceService: quiz registry and attempt history                   *)
(***************************************************************************)
Topics == {"Example Show", "Dune"}
Users == {"alice", "bob"}

QuizData(questions, topic) == [questions |-> questions, topic |-> topic]

\* mutant of generate_quiz_id: the identifier does not depend on what was
\* issued before
generate_quiz_id_constant(n) == 1

\* str(uuid.uuid4()): a token that was not handed out before (a collision of
\* two random 122-bit tokens is not modelled); n tokens were issued so far
generate_quiz_id(n) == n + 1

\* mutant of store_quiz: the registry keeps only the newest quiz
store_quiz_evicting(registry, quiz_id, questions, topic) ==
    [id \in {quiz_id} |-> QuizData(questions, topic)]

\* self._quizzes[quiz_id] = (questions, topic)
store_quiz(registry, quiz_id, questions, topic) ==
    [id \in DOMAIN registry \cup {quiz_id} |->
        IF id = quiz_id THEN QuizData(questions, topic) ELSE registry[id]]

\* mutant of get_quiz: the lookup ignores the key and returns the newest entry
get_quiz_newest(registry, quiz_id) ==
    IF DOMAIN registry = {} THEN None
    ELSE registry[CHOOSE id \in DOMAIN registry :
                     \A other \in DOMAIN registry : other <= id]

\* self._quizzes.get(quiz_id)
get_quiz(registry, quiz_id) ==
    IF quiz_id \in DOMAIN registry THEN registry[quiz_id] ELSE None

QuizAttempt(user_name, quiz_topic, score, total, timestamp) ==
    [user_name |-> user_name, quiz_topic |-> quiz_topic, score |-> score,
     total |-> total, timestamp |-> timestamp]

InDict(order, user_name) == \E k \in 1..Len(order) : order[k] = user_name

\* mutant of AppendAttempt: the user's list is created anew on every save
AppendAttemptFresh(hist, attempt) ==
    [hist EXCEPT ![attempt.user_name] = <<attempt>>]

\* self._attempts[user_name].append(attempt), creating the list when absent
AppendAttempt(hist, attempt) ==
    [hist EXCEPT ![attempt.user_name] = Append(@, attempt)]

KeysAfterAppend(order, user_name) ==
    IF InDict(order, user_name) THEN order ELSE Append(order, user_name)

\* attempts_data of _save_to_file: every user's attempts, users in key order
RECURSIVE AttemptsData(_, _)
AttemptsData(hist, order) ==
    IF order = <<>> THEN <<>>
    ELSE hist[Head(order)] \o AttemptsData(hist, Tail(order))

(***************************************************************************)
(* TriviaService.generate_quiz: requests to and replies of the generator   *)
(***************************************************************************)
\* a chat request: whether response_format=json_object is set and whether
\* the JSON-only instruction is appended to the user prompt
GenRequest(structured, json_only) ==
    [response_format |-> structured, json_only_instruction |-> json_only]

FirstRequest == GenRequest(TRUE, FALSE)
RetryRequest == GenRequest(FALSE, TRUE)

\* the request raised; rf / jo: whether the lower-cased message contains
\* "response_format" / "json_object"
ErrorReply(rf, jo) == [kind |-> "error", rf |-> rf, jo |-> jo]
\* a response object without usable choices / usage
MalformedReply == [kind |-> "malformed"]
\* a response whose message content is None or ""
EmptyReply == [kind |-> "empty"]
\* a response whose content does not parse as JSON after extraction
NotJsonReply == [kind |-> "not_json"]
\* a response whose content parses, after extraction, to data
JsonReply(data) == [kind |-> "json", data |-> data]

WithFirst(e) ==
    Payload(TRUE, TRUE, TRUE,
            [p \in 1..NumQuestions |-> IF p = 1 THEN e ELSE BaseElem(p)])

\* the payloads the generator answers with in Spec
GenPayloads ==
    { BasePayload,
      WithFirst([BaseElem(1) EXCEPT
                    !.options = <<JInt(1), JInt(2), OptA, OptA>>,
                    !.correct_answer = JFloat(1)]),
      WithFirst([BaseElem(1) EXCEPT !.keys = {"options", "correct_answer"}]),
      Payload(TRUE, TRUE, TRUE, [p \in 1..(NumQuestions - 1) |-> BaseElem(p)]) }

GeneratorReplies ==
    {ErrorReply(TRUE, FALSE), ErrorReply(FALSE, TRUE), ErrorReply(FALSE, FALSE)}
    \cup {MalformedReply, EmptyReply, NotJsonReply}
    \cup {JsonReply(d) : d \in GenPayloads}

\* mutant of IsFormatUnsupported: only "response_format" is looked for
IsFormatUnsupportedNarrow(e) == e.kind = "error" /\ e.rf

\* "response_format" in error_str.lower() or "json_object" in error_str.lower()
IsFormatUnsupported(e) == e.kind = "error" /\ (e.rf \/ e.jo)

Returned(questions) == [ok |-> TRUE, questions |-> questions]
Raised(exc, msg, cause, index) ==
    [ok |-> FALSE, exc |-> exc, msg |-> msg, cause |-> cause, index |-> index]

\* generate_quiz from the response on: content check, extraction, json.loads,
\* validation, and the two except clauses that turn every failure into a
\* ValueError
AfterResponse(reply) ==
    IF reply.kind = "error"
    THEN Raised("ValueError", "Error generating quiz", "request_failed", 0)
    ELSE IF reply.kind = "malformed"
    THEN Raised("ValueError", "Error generating quiz", "malformed_response", 0)
    ELSE IF reply.kind = "empty"
    THEN Raised("ValueError", "Error generating quiz", "empty_response", 0)
    ELSE IF reply.kind = "not_json"
    THEN Raised("ValueError", "Invalid JSON response from OpenAI", "json_decode", 0)
    ELSE LET v == ParseAndValidate(reply.data)
         IN  IF v.ok THEN Returned(v.questions)
             ELSE Raised("ValueError", "Error generating quiz", v.kind, v.index)

(***************************************************************************)
(* TriviaService.generate_performance_phrase                               *)
(***************************************************************************)
\* mutant of Category: the 'Decent' band starts above 6
CategoryStrict(score, total) ==
    IF score = total THEN "Amazing"
    ELSE IF score > 6 THEN "Decent"
    ELSE IF score >= 3 THEN "Poor"
    ELSE "Abysmal"

Category(score, total) ==
    IF score = total THEN "Amazing"
    ELSE IF score >= 6 THEN "Decent"
    ELSE IF score >= 3 THEN "Poor"
    ELSE "Abysmal"

_get_fallback_phrase(category, topic) ==
    CASE category = "Amazing" -> "Outstanding knowledge of " \o topic \o "!"
      [] category = "Decent" -> "Not bad! You know your " \o topic \o "."
      [] category = "Poor" -> "Time to rewatch " \o topic \o "!"
      [] category = "Abysmal" -> "You might want to brush up on " \o topic \o "."
      [] OTHER -> "Thanks for playing the " \o topic \o " quiz!"

\* contents the generator returns: a phrase with surrounding blanks, and
\* blanks only
PhraseTexts == {"  Nice.  ", "   "}

\* content.strip()
Strip(text) ==
    IF text = "  Nice.  " THEN "Nice." ELSE IF text = "   " THEN "" ELSE text

TextReply(text) == [kind |-> "text", text |-> text]

PhraseReplies ==
    {ErrorReply(rf, FALSE) : rf \in BOOLEAN}
    \cup {EmptyReply, MalformedReply}
    \cup {TextReply(t) : t \in PhraseTexts}

\* what the generator does on the phrase request and, when the first error
\* mentions response_format, on the retry
PhraseBehaviours ==
    {<<r, r>> : r \in PhraseReplies \ {ErrorReply(TRUE, FALSE)}}
    \cup {<<ErrorReply(TRUE, FALSE), r>> : r \in PhraseReplies}

Phrase(text, requests) == [phrase |-> text, requests |-> requests]

\* mutant of PhraseFrom: empty content is not checked before it is stripped
PhraseFromUnchecked(reply, category, topic, requests) ==
    IF reply.kind = "text" THEN Phrase(Strip(reply.text), requests)
    ELSE IF reply.kind = "empty" THEN Phrase("", requests)
    ELSE Phrase(_get_fallback_phrase(category, topic), requests)

\* the phrase from a response: fallback on empty content or on an exception
PhraseFrom(reply, category, topic, requests) ==
    IF reply.kind = "text" THEN Phrase(Strip(reply.text), requests)
    ELSE Phrase(_get_fallback_phrase(category, topic), requests)

\* the replies a phrase call consumes: the retry is sent only after an error
\* whose text mentions response_format
PhraseRepliesSeen(r1, r2) ==
    IF r1.kind = "error" /\ r1.rf THEN <<r1, r2>> ELSE <<r1>>

\* r1, r2: what the generator does on the first request and on the retry
generate_performance_phrase(topic, score, total, r1, r2) ==
    LET category == Category(score, total) IN
       IF r1.kind = "error" /\ r1.rf
       THEN PhraseFrom(r2, category, topic, 2)
       ELSE PhraseFrom(r1, category, topic, 1)

(***************************************************************************)
(* TriviaService._extract_json_from_content.  A text is a sequence of      *)
(* pieces: the fence marker of three backticks, the word json, another     *)
(* language tag, a brace, a blank (space or newline), a word of commentary,*)
(* a run of JSON between braces.  Backticks occur in threes only.          *)
(***************************************************************************)
\* the marker of three backticks
Fence == "<fence>"
Blank == " "

\* str.find(piece, from): the first position >= from holding piece; 0 for -1
\* (positions count from 1)
Find(content, piece, from) ==
    LET hits == {i \in from..Len(content) : content[i] = piece}
    IN  IF hits = {} THEN 0 ELSE CHOOSE i \in hits : \A j \in hits : i <= j

\* str.rfind(piece)
RFind(content, piece) ==
    LET hits == {i \in 1..Len(content) : content[i] = piece}
    IN  IF hits = {} THEN 0 ELSE CHOOSE i \in hits : \A j \in hits : j <= i

\* content.find of the marker directly followed by json
FindJsonFence(content) ==
    LET hits == {i \in 1..(Len(content) - 1) :
                    content[i] = Fence /\ content[i + 1] = "json"}
    IN  IF hits = {} THEN 0 ELSE CHOOSE i \in hits : \A j \in hits : i <= j

\* str.strip()
RECURSIVE StripBlanks(_)
StripBlanks(content) ==
    IF content = <<>> THEN <<>>
    ELSE IF Head(content) = Blank THEN StripBlanks(Tail(content))
    ELSE IF content[Len(content)] = Blank
         THEN StripBlanks(SubSeq(content, 1, Len(content) - 1))
    ELSE content

\* content[start:end].strip() when the closing fence was found (first is the
\* position of the first piece after the opening fence)
BetweenFences(content, first) ==
    LET end == Find(content, Fence, first)
    IN  IF end # 0 THEN StripBlanks(SubSeq(content, first, end - 1)) ELSE content

\* mutant of EndIndex: the first closing brace instead of the last
EndIndexFirst(content) == Find(content, "}", 1)

\* end_idx = content.rfind("}")
EndIndex(content) == RFind(content, "}")

_extract_json_from_content(content) ==
    LET unfenced ==
           IF FindJsonFence(content) # 0
           THEN BetweenFences(content, FindJsonFence(content) + 2)
           ELSE IF Find(content, Fence, 1) # 0
           THEN BetweenFences(content, Find(content, Fence, 1) + 1)
           ELSE content
        start_idx == Find(unfenced, "{", 1)
        end_idx == EndIndex(unfenced)
    IN  IF start_idx # 0 /\ end_idx # 0 /\ end_idx > start_idx
        THEN StripBlanks(SubSeq(unfenced, start_idx, end_idx))
        ELSE StripBlanks(unfenced)

(***************************************************************************)
(* SpecExtract: the extraction on texts made of commentary, an optional    *)
(* fence pair and a JSON object.                                           *)
(***************************************************************************)
JsonRun == "\"questions\": []"

JsonObjects ==
    { <<"{", "}">>,
      <<"{", JsonRun, "}">>,
      <<"{", JsonRun, "{", JsonRun, "}", "}">> }

CommentaryPieces == {"Here", "json", "{", "}"}

Commentaries == UNION {[1..n -> CommentaryPieces] : n \in 0..MaxCommentary}

\* the opening fence: none, plain, tagged json, tagged otherwise
Openings == {<<>>, <<Fence>>, <<Fence, "json">>, <<Fence, "python">>}

\* the text: commentary, the block (or the bare object), commentary
Compose(lead, opening, pad, object, trail) ==
    IF opening = <<>> THEN lead \o <<Blank>> \o object \o <<Blank>> \o trail
    ELSE lead \o opening \o pad \o object \o pad \o <<Fence>> \o trail

ExtractInput(lead, opening, pad, object, trail) ==
    [lead |-> lead, opening |-> opening, object |-> object, trail |-> trail,
     content |-> Compose(lead, opening, pad, object, trail)]

ExtractInputs ==
    {ExtractInput(lead, opening, pad, object, trail) :
        lead \in Commentaries, opening \in Openings, pad \in {<<>>, <<Blank>>},
        object \in JsonObjects, trail \in Commentaries}

InitExtract ==
    /\ InitService /\ InitValidateIdle /\ InitScoreIdle /\ InitPhraseIdle
    /\ InitThreadsIdle
    /\ eInput \in ExtractInputs
    /\ eResult = None

Extract ==
    /\ eInput # None
    /\ eResult = None
    /\ eResult' = [content |-> _extract_json_from_content(eInput.content)]
    /\ UNCHANGED <<eInput, serviceVars, validateVars, scoreVars, phraseVars,
                   threadVars>>

NextExtract == Extract

SpecExtract == InitExtract /\ [][NextExtract]_vars

(***************************************************************************)
(* SpecPhrase: generate_performance_phrase on every score of every total   *)
(* up to MaxTotal, under every behaviour of the generator.                 *)
(***************************************************************************)
PhraseInput(topic, score, total, b) ==
    [topic |-> topic, score |-> score, total |-> total, first |-> b[1],
     retry |-> b[2]]

PhraseInputs ==
    {PhraseInput(topic, score, total, b) :
        topic \in Topics, total \in 0..MaxTotal, score \in 0..MaxTotal,
        b \in PhraseBehaviours}

InitPhrase ==
    /\ InitService /\ InitValidateIdle /\ InitScoreIdle /\ InitExtractIdle
    /\ InitThreadsIdle
    /\ pInput \in {i \in PhraseInputs : i.score <= i.total}
    /\ pResult = None

\* one call; category is the level the prompt of the request names
PhraseCall ==
    /\ pInput # None
    /\ pResult = None
    /\ LET g == generate_performance_phrase(pInput.topic, pInput.score,
                                            pInput.total, pInput.first,
                                            pInput.retry)
       IN  pResult' = [category |-> Category(pInput.score, pInput.total),
                       phrase |-> g.phrase, requests |-> g.requests,
                       replies |-> PhraseRepliesSeen(pInput.first, pInput.retry)]
    /\ UNCHANGED <<pInput, serviceVars, validateVars, scoreVars, extractVars,
                   threadVars>>

NextPhrase == PhraseCall

SpecPhrase == InitPhrase /\ [][NextPhrase]_vars

(***************************************************************************)
(* main.py: the generate-quiz and submit-quiz handlers                     *)
(***************************************************************************)
\* QuizResponse(quiz_id, questions), with the request it answers
GenerateOk(topic, quiz_id, questions) ==
    [op |-> "generate", topic |-> topic, status |-> 200,
     quiz_id |-> quiz_id, questions |-> questions]

\* HTTPException(status, detail); cause / index: what the detail text names
GenerateFailed(topic, status, detail, cause, index) ==
    [op |-> "generate", topic |-> topic, status |-> status, detail |-> detail,
     cause |-> cause, index |-> index]

SubmitRequest(quiz_id, user_name, answers) ==
    [quiz_id |-> quiz_id, user_name |-> user_name, answers |-> answers]

\* HTTPException(status, detail) of submit_quiz; compared / phrase_requests:
\* answers compared and phrase requests sent before the request ended;
\* phrase_replies (SubmitResponse): what the generator answered to them
SubmitError(request, status, detail, compared) ==
    [op |-> "submit", request |-> request, status |-> status, detail |-> detail,
     compared |-> compared, phrase_requests |-> 0]

SubmitResponse(request, score, total, results, phrase, compared, requests, replies) ==
    [op |-> "submit", request |-> request, status |-> 200, detail |-> "",
     score |-> score, total |-> total, results |-> results,
     performance_phrase |-> phrase, compared |-> compared,
     phrase_requests |-> requests, phrase_replies |-> replies]

\* except ValueError -> 400, except Exception -> 500
GenerateErrorStatus(exc) == IF exc = "ValueError" THEN 400 ELSE 500

StoreCall(quiz_id, questions, topic) ==
    [quiz_id |-> quiz_id, questions |-> questions, topic |-> topic]

\* POST /api/generate-quiz arrives: the first generator request goes out
GenerateStart(topic) ==
    /\ pc = "idle"
    /\ received < MaxRequests
    /\ received' = received + 1
    /\ pc' = "call1"
    /\ genTopic' = topic
    /\ genRequests' = <<FirstRequest>>
    /\ genReplies' = <<>>
    /\ UNCHANGED <<quizzes, issued, stored, attempts, userOrder, historyFile, clock,
                   last, validateVars, scoreVars, phraseVars, extractVars,
                   threadVars>>

\* mutant of FinishGenerate: the handler registers whatever the generation
\* produced before it looks at the outcome
FinishGenerateStoreFirst(n, topic, outcome) ==
    LET quiz_id == generate_quiz_id(n)
        qs == IF outcome.ok THEN outcome.questions ELSE <<>>
    IN  [store |-> <<StoreCall(quiz_id, qs, topic)>>,
         issued |-> n + 1,
         response |->
            IF outcome.ok THEN GenerateOk(topic, quiz_id, outcome.questions)
            ELSE GenerateFailed(topic, GenerateErrorStatus(outcome.exc), outcome.msg,
                                outcome.cause, outcome.index)]

\* the handler once trivia_service.generate_quiz returned or raised (n tokens
\* issued so far): the store_quiz call it makes, if any, and its response
FinishGenerate(n, topic, outcome) ==
    IF outcome.ok
    THEN LET quiz_id == generate_quiz_id(n)
         IN  [store |-> <<StoreCall(quiz_id, outcome.questions, topic)>>,
              issued |-> n + 1,
              response |-> GenerateOk(topic, quiz_id, outcome.questions)]
    ELSE [store |-> <<>>,
          issued |-> n,
          response |-> GenerateFailed(topic, GenerateErrorStatus(outcome.exc),
                                      outcome.msg, outcome.cause, outcome.index)]

\* the generator answers the request in flight
GeneratorReply(reply) ==
    /\ pc \in {"call1", "call2"}
    /\ genReplies' = Append(genReplies, reply)
    /\ IF pc = "call1" /\ IsFormatUnsupported(reply)
       THEN /\ pc' = "call2"
            /\ genRequests' = Append(genRequests, RetryRequest)
            /\ UNCHANGED <<quizzes, issued, stored, last, genTopic>>
       ELSE LET done == FinishGenerate(issued, genTopic, AfterResponse(reply))
            IN  /\ pc' = "idle"
                /\ quizzes' = IF done.store = <<>> THEN quizzes
                              ELSE store_quiz(quizzes, done.store[1].quiz_id,
                                              done.store[1].questions,
                                              done.store[1].topic)
                /\ stored' = stored \o done.store
                /\ issued' = done.issued
                /\ last' = done.response
                /\ genTopic' = ""
                /\ UNCHANGED genRequests
    /\ UNCHANGED <<attempts, userOrder, historyFile, clock, received,
                   validateVars, scoreVars, phraseVars, extractVars,
                   threadVars>>

\* mutant of AnswerCountMatches: the handler does not compare the lengths
AnswerCountUnchecked(questions, answers) == TRUE

\* len(request.answers) != len(questions) rejects the request
AnswerCountMatches(questions, answers) == Len(answers) = Len(questions)

\* f"Expected {len(questions)} answers, got {len(request.answers)}"
MismatchDetail(questions, answers) ==
    "Expected " \o IntStr(Len(questions)) \o " answers, got " \o IntStr(Len(answers))

\* mutant of NotFoundError: without the except HTTPException clause the 404
\* is caught by except Exception and leaves as an internal error
NotFoundErrorGeneric ==
    [status |-> 500, detail |-> "Internal server error: 404: Quiz not found"]

\* raise HTTPException(404, "Quiz not found"), passed on unchanged by the
\* except HTTPException clause
NotFoundError == [status |-> 404, detail |-> "Quiz not found"]

\* POST /api/submit-quiz
Submit(quiz_id, user_name, answers) ==
    /\ pc = "idle"
    /\ received < MaxRequests
    /\ received' = received + 1
    /\ LET request == SubmitRequest(quiz_id, user_name, answers)
           quiz_data == get_quiz(quizzes, quiz_id)
       IN  IF quiz_data = None
           THEN /\ last' = SubmitError(request, NotFoundError.status,
                                       NotFoundError.detail, 0)
                /\ UNCHANGED <<attempts, userOrder, historyFile, clock>>
           ELSE IF ~AnswerCountMatches(quiz_data.questions, answers)
           THEN /\ last' = SubmitError(request, 400,
                                       MismatchDetail(quiz_data.questions, answers), 0)
                /\ UNCHANGED <<attempts, userOrder, historyFile, clock>>
           ELSE LET questions == quiz_data.questions
                    topic == quiz_data.topic
                    scored == calculate_score(questions, answers)
                IN  IF ~scored.ok
                    THEN /\ last' = SubmitError(request, 500, "Internal server error",
                                                scored.compared)
                         /\ UNCHANGED <<attempts, userOrder, historyFile, clock>>
                    ELSE \E b \in PhraseBehaviours, written \in BOOLEAN :
                         LET total == Len(questions)
                             phrase == generate_performance_phrase(
                                           topic, scored.score, total, b[1], b[2])
                             attempt == QuizAttempt(user_name, topic, scored.score,
                                                    total, clock + 1)
                             hist == AppendAttempt(attempts, attempt)
                             keys == KeysAfterAppend(userOrder, user_name)
                         IN  /\ attempts' = hist
                             /\ userOrder' = keys
                             /\ clock' = clock + 1
                             /\ historyFile' = IF written THEN AttemptsData(hist, keys)
                                               ELSE historyFile
                             /\ last' = SubmitResponse(request, scored.score, total,
                                                       scored.results, phrase.phrase,
                                                       scored.compared, phrase.requests,
                                                       PhraseRepliesSeen(b[1], b[2]))
    /\ genRequests' = <<>>
    /\ genReplies' = <<>>
    /\ UNCHANGED <<quizzes, issued, stored, pc, genTopic, validateVars, scoreVars,
                   phraseVars, extractVars, threadVars>>

\* the answer lists submitted in Spec: the correct answers of the well-formed
\* quiz, and the same list one answer short or one answer long
RightOnFirst(k) ==
    [p \in 1..NumQuestions |-> IF p <= k THEN BaseQuiz[p].correct_answer ELSE "E"]

SubmittedAnswers ==
    {RightOnFirst(NumQuestions)}
    \cup {SubSeq(RightOnFirst(NumQuestions), 1, NumQuestions - 1),
          Append(RightOnFirst(NumQuestions), "A")}

SubmittedIds == 1..MaxRequests

Init ==
    /\ InitService /\ InitValidateIdle /\ InitScoreIdle /\ InitPhraseIdle
    /\ InitExtractIdle /\ InitThreadsIdle

Next ==
    \/ \E topic \in Topics : GenerateStart(topic)
    \/ \E reply \in GeneratorReplies : GeneratorReply(reply)
    \/ \E quiz_id \in SubmittedIds, user_name \in Users, answers \in SubmittedAnswers :
          Submit(quiz_id, user_name, answers)

Spec == Init /\ [][Next]_vars

(***************************************************************************)
(* SpecHistory: the attempt history on its own, save_attempt called with   *)
(* any user and topic and queried through GET /api/scores.                 *)
(***************************************************************************)
\* self._attempts.get(user_name, [])
get_user_attempts(hist, order, user_name) ==
    IF InDict(order, user_name) THEN hist[user_name] ELSE <<>>

\* ScoresResponse(attempts), with the user it was asked for
ScoresResponse(user_name, list) ==
    [op |-> "scores", user_name |-> user_name, status |-> 200, attempts |-> list]

\* persistence_service.save_attempt(user_name, quiz_topic, score, total);
\* written: whether _save_to_file got the file written (its errors are
\* logged, not raised)
SaveAttempt(user_name, quiz_topic, score, written) ==
    /\ clock < MaxAttempts
    /\ LET attempt == QuizAttempt(user_name, quiz_topic, score, NumQuestions,
                                  clock + 1)
           hist == AppendAttempt(attempts, attempt)
           keys == KeysAfterAppend(userOrder, user_name)
       IN  /\ attempts' = hist
           /\ userOrder' = keys
           /\ clock' = clock + 1
           /\ historyFile' = IF written THEN AttemptsData(hist, keys)
                             ELSE historyFile
    /\ UNCHANGED <<quizzes, issued, stored, pc, genTopic, genRequests, genReplies,
                   received, last, validateVars, scoreVars, phraseVars,
                   extractVars, threadVars>>

\* GET /api/scores?user_name=...
GetScores(user_name) ==
    /\ last' = ScoresResponse(user_name,
                              get_user_attempts(attempts, userOrder, user_name))
    /\ UNCHANGED <<quizzes, issued, stored, attempts, userOrder, historyFile, pc,
                   genTopic, genRequests, genReplies, clock, received,
                   validateVars, scoreVars, phraseVars, extractVars, threadVars>>

NextHistory ==
    \/ \E user_name \in Users, quiz_topic \in Topics, written \in BOOLEAN :
          SaveAttempt(user_name, quiz_topic, NumQuestions, written)
    \/ \E user_name \in Users : GetScores(user_name)

SpecHistory == Init /\ [][NextHistory]_vars

(***************************************************************************)
(* SpecRegistry: several requests in flight, one thread each (the handlers *)
(* are plain functions, which the server runs on worker threads).  A step  *)
(* is one registry operation of one thread: a dict assignment or a         *)
(* dict.get, each a single operation on the dict under the interpreter     *)
(* lock.  workers[t] holds the position and the locals of thread t.        *)
(***************************************************************************)
\* the question sets the concurrent generate requests register
RegistryQuizzes == {BaseQuiz, [BaseQuiz EXCEPT ![1].correct_answer = "B"]}

GenerateWorker(topic, questions) ==
    [op |-> "generate", at |-> "generate_quiz_id", topic |-> topic,
     questions |-> questions, quiz_id |-> 0, began |-> 0, quiz_data |-> None]

\* began: the number of store_quiz calls that had returned when the request
\* started
SubmitWorker(quiz_id, began) ==
    [op |-> "submit", at |-> "get_quiz", topic |-> "", questions |-> <<>>,
     quiz_id |-> quiz_id, began |-> began, quiz_data |-> None]

\* a generate request whose generation succeeded is about to take its
\* identifier
BeginGenerate(topic, questions) ==
    /\ Len(workers) < MaxThreads
    /\ workers' = Append(workers, GenerateWorker(topic, questions))
    /\ UNCHANGED <<serviceVars, validateVars, scoreVars, phraseVars, extractVars,
                   tempFile>>

\* a submit request is about to look its quiz up
BeginSubmit(quiz_id) ==
    /\ Len(workers) < MaxThreads
    /\ workers' = Append(workers, SubmitWorker(quiz_id, Len(stored)))
    /\ UNCHANGED <<serviceVars, validateVars, scoreVars, phraseVars, extractVars,
                   tempFile>>

\* quiz_id = persistence_service.generate_quiz_id()
WorkerGenerateId(t) ==
    /\ workers[t].at = "generate_quiz_id"
    /\ workers' = [workers EXCEPT ![t].quiz_id = generate_quiz_id(issued),
                                  ![t].at = "store_quiz"]
    /\ issued' = issued + 1
    /\ UNCHANGED <<quizzes, stored, attempts, userOrder, historyFile, pc, genTopic,
                   genRequests, genReplies, clock, received, last, validateVars,
                   scoreVars, phraseVars, extractVars, tempFile>>

\* persistence_service.store_quiz(quiz_id, questions, request.topic)
WorkerStoreQuiz(t) ==
    /\ workers[t].at = "store_quiz"
    /\ quizzes' = store_quiz(quizzes, workers[t].quiz_id, workers[t].questions,
                             workers[t].topic)
    /\ stored' = Append(stored, StoreCall(workers[t].quiz_id, workers[t].questions,
                                          workers[t].topic))
    /\ workers' = [workers EXCEPT ![t].at = "done"]
    /\ UNCHANGED <<issued, attempts, userOrder, historyFile, pc, genTopic,
                   genRequests, genReplies, clock, received, last, validateVars,
                   scoreVars, phraseVars, extractVars, tempFile>>

\* quiz_data = persistence_service.get_quiz(request.quiz_id)
WorkerGetQuiz(t) ==
    /\ workers[t].at = "get_quiz"
    /\ workers' = [workers EXCEPT ![t].quiz_data = get_quiz(quizzes, workers[t].quiz_id),
                                  ![t].at = "done"]
    /\ UNCHANGED <<serviceVars, validateVars, scoreVars, phraseVars, extractVars,
                   tempFile>>

NextRegistry ==
    \/ \E topic \in Topics, questions \in RegistryQuizzes :
          BeginGenerate(topic, questions)
    \/ \E quiz_id \in 1..MaxThreads : BeginSubmit(quiz_id)
    \/ \E t \in 1..Len(workers) : WorkerGenerateId(t)
    \/ \E t \in 1..Len(workers) : WorkerStoreQuiz(t)
    \/ \E t \in 1..Len(workers) : WorkerGetQuiz(t)

SpecRegistry == Init /\ [][NextRegistry]_vars

(***************************************************************************)
(* SpecSave: several submit requests inside save_attempt at once, one      *)
(* thread each.  A step is one statement of save_attempt / _save_to_file;  *)
(* building attempts_data and writing the temp file are taken as one step  *)
(* each (schedules that split them add behaviours, they remove none).      *)
(***************************************************************************)
SaveWorker(attempt) ==
    [op |-> "save", at |-> "check", attempt |-> attempt, absent |-> FALSE,
     attempts_data |-> <<>>, error |-> FALSE]

\* attempt = QuizAttempt(..., timestamp=datetime.now())
BeginSave(user_name, quiz_topic, score) ==
    /\ Len(workers) < MaxSavers
    /\ workers' = Append(workers,
                         SaveWorker(QuizAttempt(user_name, quiz_topic, score,
                                                NumQuestions, clock + 1)))
    /\ clock' = clock + 1
    /\ UNCHANGED <<quizzes, issued, stored, attempts, userOrder, historyFile, pc,
                   genTopic, genRequests, genReplies, received, last, validateVars,
                   scoreVars, phraseVars, extractVars, tempFile>>

\* if user_name not in self._attempts
SaveCheck(t) ==
    /\ workers[t].op = "save" /\ workers[t].at = "check"
    /\ workers' = [workers EXCEPT
                      ![t].absent = ~InDict(userOrder, workers[t].attempt.user_name),
                      ![t].at = "create"]
    /\ UNCHANGED <<serviceVars, validateVars, scoreVars, phraseVars, extractVars,
                   tempFile>>

\* self._attempts[user_name] = []  (skipped when the key was found)
SaveCreate(t) ==
    /\ workers[t].op = "save" /\ workers[t].at = "create"
    /\ workers' = [workers EXCEPT ![t].at = "append"]
    /\ IF workers[t].absent
       THEN /\ attempts' = [attempts EXCEPT ![workers[t].attempt.user_name] = <<>>]
            /\ userOrder' = KeysAfterAppend(userOrder, workers[t].attempt.user_name)
       ELSE UNCHANGED <<attempts, userOrder>>
    /\ UNCHANGED <<quizzes, issued, stored, historyFile, pc, genTopic, genRequests,
                   genReplies, clock, received, last, validateVars, scoreVars,
                   phraseVars, extractVars, tempFile>>

\* self._attempts[user_name].append(attempt)
SaveAppend(t) ==
    /\ workers[t].op = "save" /\ workers[t].at = "append"
    /\ workers' = [workers EXCEPT ![t].at = "collect"]
    /\ attempts' = AppendAttempt(attempts, workers[t].attempt)
    /\ UNCHANGED <<quizzes, issued, stored, userOrder, historyFile, pc, genTopic,
                   genRequests, genReplies, clock, received, last, validateVars,
                   scoreVars, phraseVars, extractVars, tempFile>>

\* _save_to_file: attempts_data is built from self._attempts
SaveCollect(t) ==
    /\ workers[t].op = "save" /\ workers[t].at = "collect"
    /\ workers' = [workers EXCEPT
                      ![t].attempts_data = AttemptsData(attempts, userOrder),
                      ![t].at = "write"]
    /\ UNCHANGED <<serviceVars, validateVars, scoreVars, phraseVars, extractVars,
                   tempFile>>

\* with open(temp_file, 'w') as f: json.dump({'attempts': attempts_data}, f)
SaveWriteTemp(t) ==
    /\ workers[t].op = "save" /\ workers[t].at = "write"
    /\ tempFile' = [attempts |-> workers[t].attempts_data]
    /\ workers' = [workers EXCEPT ![t].at = "replace"]
    /\ UNCHANGED <<serviceVars, validateVars, scoreVars, phraseVars, extractVars>>

\* os.replace(temp_file, self.data_file); without a temp file it raises, the
\* error is logged and save_attempt returns normally
SaveReplace(t) ==
    /\ workers[t].op = "save" /\ workers[t].at = "replace"
    /\ IF tempFile = None
       THEN /\ workers' = [workers EXCEPT ![t].at = "done", ![t].error = TRUE]
            /\ UNCHANGED <<historyFile, tempFile>>
       ELSE /\ workers' = [workers EXCEPT ![t].at = "done"]
            /\ historyFile' = tempFile.attempts
            /\ tempFile' = None
    /\ UNCHANGED <<quizzes, issued, stored, attempts, userOrder, pc, genTopic,
                   genRequests, genReplies, clock, received, last, validateVars,
                   scoreVars, phraseVars, extractVars>>

NextSave ==
    \/ \E user_name \in Users, quiz_topic \in Topics :
          BeginSave(user_name, quiz_topic, NumQuestions)
    \/ \E t \in 1..Len(workers) : SaveCheck(t)
    \/ \E t \in 1..Len(workers) : SaveCreate(t)
    \/ \E t \in 1..Len(workers) : SaveAppend(t)
    \/ \E t \in 1..Len(workers) : SaveCollect(t)
    \/ \E t \in 1..Len(workers) : SaveWriteTemp(t)
    \/ \E t \in 1..Len(workers) : SaveReplace(t)

SpecSave == Init /\ [][NextSave]_vars

(***************************************************************************)
(* SpecScoring: the scoring path both ways, calculate_score called on its  *)
(* own (SpecScore) and through the submit handler of the service (Spec).   *)
(***************************************************************************)
InitScoring == Init \/ InitScore

NextScoring ==
    \/ sInput = None /\ Next
    \/ Score

SpecScoring == InitScoring /\ [][NextScoring]_vars

(***************************************************************************)
(* Properties of the validator (checked under SpecValidate).               *)
(***************************************************************************)
Validated == vResult # None

\* C5: every accepted payload yields exactly 10 questions, each with exactly
\* 4 option strings and a correct_answer string equal to one of its own
\* option strings.
C5_AnswerSetIntegrity ==
    (Validated /\ vResult.ok) =>
        /\ Len(vResult.questions) = NumQuestions
        /\ \A p \in 1..Len(vResult.questions) :
              LET q == vResult.questions[p] IN
                 /\ Len(q.options) = NumOptions
                 /\ \E k \in 1..Len(q.options) : q.options[k] = q.correct_answer

\* C6: every accepted question has 4 pairwise-distinct option strings.
C6_OptionsDistinct ==
    (Validated /\ vResult.ok) =>
        \A p \in 1..Len(vResult.questions) :
           LET o == vResult.questions[p].options IN
              \A j, k \in 1..Len(o) : j # k => o[j] # o[k]

\* what the claims call the per-question checks, stated on the raw element
ClaimMissing(q, key) == ~q.obj \/ key \notin q.keys
ClaimNotFourEntries(q) == ~q.optlist \/ Len(q.options) # NumOptions
ClaimAnswerNotAnOption(q) ==
    ~q.optlist \/ ~(\E k \in 1..Len(q.options) : PyEq(q.options[k], q.correct_answer))

\* the first failing check in the five-step order of the claim
FirstOfFive(q) ==
    IF ClaimMissing(q, "question") THEN "missing_question"
    ELSE IF ClaimMissing(q, "options") THEN "missing_options"
    ELSE IF ClaimMissing(q, "correct_answer") THEN "missing_correct_answer"
    ELSE IF ClaimNotFourEntries(q) THEN "options_count"
    ELSE IF ClaimAnswerNotAnOption(q) THEN "answer_not_in_options"
    ELSE "ok"

\* the first failing check in the seven-step order: the two type checks
\* (element is an object, options is an array) added to the five
FirstOfSeven(q) ==
    IF ~q.obj THEN "not_object"
    ELSE IF ClaimMissing(q, "question") THEN "missing_question"
    ELSE IF ClaimMissing(q, "options") THEN "missing_options"
    ELSE IF ClaimMissing(q, "correct_answer") THEN "missing_correct_answer"
    ELSE IF ~q.optlist THEN "options_not_array"
    ELSE IF ClaimNotFourEntries(q) THEN "options_count"
    ELSE IF ClaimAnswerNotAnOption(q) THEN "answer_not_in_options"
    ELSE "ok"

TenElements(data) ==
    data.dict /\ data.hasq /\ data.qlist /\ Len(data.questions) = NumQuestions

FailingPositions(data) ==
    {p \in 1..Len(data.questions) : FirstOfSeven(data.questions[p]) # "ok"}

LowestFailing(data) ==
    CHOOSE p \in FailingPositions(data) : \A r \in FailingPositions(data) : p <= r

\* C7 as stated: a 10-element payload with a failing question yields no
\* questions and an error naming the lowest failing 1-based index and the
\* first failing check of the five-step order.
C7_FiveCheckOrder ==
    (Validated /\ TenElements(vPayload) /\ FailingPositions(vPayload) # {}) =>
        /\ ~vResult.ok
        /\ vResult.questions = <<>>
        /\ vResult.index = LowestFailing(vPayload)
        /\ vResult.kind = FirstOfFive(vPayload.questions[LowestFailing(vPayload)])

\* C7 (amended): the same, with the first failing check taken in the
\* seven-step order: not an object, missing 'question', missing 'options',
\* missing 'correct_answer', options not an array, options not exactly 4
\* entries, correct_answer not one of the options.
C7_IndexedError ==
    (Validated /\ TenElements(vPayload) /\ FailingPositions(vPayload) # {}) =>
        /\ ~vResult.ok
        /\ vResult.questions = <<>>
        /\ vResult.index = LowestFailing(vPayload)
        /\ vResult.kind = FirstOfSeven(vPayload.questions[LowestFailing(vPayload)])

\* two failing elements, the lower one failing two checks at once
C7_Witness ==
    /\ Validated /\ TenElements(vPayload)
    /\ Cardinality(FailingPositions(vPayload)) >= 2
    /\ vResult.index = 1
    /\ vResult.kind = "missing_correct_answer"
    /\ Len(vPayload.questions[1].options) # NumOptions

\* a payload that is valid in the sense of C8: every element an object with
\* a text, exactly 4 string options and a string correct_answer among them
ValidElement(q) ==
    /\ q.obj /\ q.keys = AllKeys /\ q.optlist
    /\ q.question.t = "str"
    /\ Len(q.options) = NumOptions
    /\ \A k \in 1..Len(q.options) : q.options[k].t = "str"
    /\ q.correct_answer.t = "str"
    /\ \E k \in 1..Len(q.options) : q.options[k].s = q.correct_answer.s

ValidPayload(data) ==
    /\ TenElements(data)
    /\ \A p \in 1..Len(data.questions) : ValidElement(data.questions[p])

\* C8: a valid payload is accepted and returned unchanged in content and
\* order: same texts, same options in the same order, same correct answers.
C8_ValidUnchanged ==
    (Validated /\ ValidPayload(vPayload)) =>
        /\ vResult.ok
        /\ Len(vResult.questions) = NumQuestions
        /\ \A p \in 1..NumQuestions :
              LET q == vPayload.questions[p]
                  r == vResult.questions[p]
              IN  /\ r.question = q.question.s
                  /\ Len(r.options) = NumOptions
                  /\ \A k \in 1..NumOptions : r.options[k] = q.options[k].s
                  /\ r.correct_answer = q.correct_answer.s

\* a valid payload whose first element is not the default one was validated
C8_Witness ==
    /\ Validated /\ ValidPayload(vPayload) /\ vResult.ok
    /\ vPayload.questions[1].options = <<OptD, OptC, OptB, OptA>>
    /\ vResult.questions[NumQuestions].correct_answer = "A"

(***************************************************************************)
(* Properties of calculate_score (checked under SpecScore).                *)
(***************************************************************************)
ScoreRan == sInput # None /\ sResult # None
sQuestions == sInput.questions
sAnswers == sInput.answers

Matches == {p \in 1..Len(sQuestions) : sAnswers[p] = sQuestions[p].correct_answer}

\* C9: for lists of equal length the score is the number of exact matches,
\* results has one entry per question in question order carrying the text,
\* the selected answer, the correct answer and is_correct; the score lies in
\* 0..length, is the length when every answer matches, 0 when none does, and
\* equals the number of results with is_correct true.
C9_ScoreIsMatchCount ==
    (ScoreRan /\ Len(sQuestions) = Len(sAnswers)) =>
        /\ sResult.ok
        /\ sResult.score = Cardinality(Matches)
        /\ Len(sResult.results) = Len(sQuestions)
        /\ \A p \in 1..Len(sQuestions) :
              sResult.results[p] =
                  [question |-> sQuestions[p].question,
                   selected |-> sAnswers[p],
                   correct |-> sQuestions[p].correct_answer,
                   is_correct |-> (sAnswers[p] = sQuestions[p].correct_answer)]
        /\ sResult.score \in 0..Len(sQuestions)
        /\ (Matches = 1..Len(sQuestions)) => sResult.score = Len(sQuestions)
        /\ (Matches = {}) => sResult.score = 0
        /\ sResult.score =
              Cardinality({p \in 1..Len(sResult.results) : sResult.results[p].is_correct})

\* a 10-question quiz scored 7, the first answer being one of the wrong ones
C9_Witness ==
    /\ ScoreRan /\ Len(sQuestions) = NumQuestions /\ sResult.ok
    /\ sResult.score = 7
    /\ ~sResult.results[1].is_correct
    /\ sResult.results[NumQuestions].is_correct

(***************************************************************************)
(* Properties of the service (checked under Spec).                         *)
(***************************************************************************)
StoredIds == {stored[k].quiz_id : k \in 1..Len(stored)}

\* C1: every quiz stored under an identifier from generate_quiz_id is what
\* get_quiz returns for that identifier from then on, get_quiz returns None
\* for an identifier that was never stored, and submit_quiz answers such an
\* identifier with 404 'Quiz not found' (not with a generic fault).
C1_RegistryRoundTrip ==
    /\ \A k \in 1..Len(stored) :
          get_quiz(quizzes, stored[k].quiz_id) =
              QuizData(stored[k].questions, stored[k].topic)
    /\ \A id \in SubmittedIds \ StoredIds : get_quiz(quizzes, id) = None
    /\ (last # None /\ last.op = "submit" /\ last.request.quiz_id \notin StoredIds) =>
          /\ last.status = 404
          /\ last.detail = "Quiz not found"

\* two different quizzes are stored and a submission named a third identifier
C1_Witness ==
    /\ Len(stored) = 2
    /\ stored[1].questions # stored[2].questions
    /\ stored[1].topic # stored[2].topic
    /\ last.op = "submit" /\ last.status = 404

\* C2: quizzes are write-once: no step changes or removes an entry the
\* registry holds.
C2_WriteOnce ==
    [][\A id \in DOMAIN quizzes :
          id \in DOMAIN quizzes' /\ quizzes'[id] = quizzes[id]]_vars

\* a second quiz was stored next to the first and a submission was scored
C2_Witness ==
    /\ DOMAIN quizzes = {1, 2}
    /\ quizzes[1] # quizzes[2]
    /\ last.op = "submit" /\ last.status = 200

GenerateEnds == pc # "idle" /\ pc' = "idle"

\* C3: a generation that ends in an error leaves the registry as it was and
\* returns neither a quiz_id nor questions; the registry changes only in the
\* step that ends a generation successfully.
C3_FailedGenerationStoresNothing ==
    [][/\ (GenerateEnds /\ last'.status # 200) =>
             /\ quizzes' = quizzes
             /\ stored' = stored
             /\ DOMAIN last' \cap {"quiz_id", "questions"} = {}
       /\ (quizzes' # quizzes) =>
             /\ GenerateEnds
             /\ last'.op = "generate" /\ last'.status = 200]_vars

\* a generation failed on the validator after the fallback request, with a
\* quiz of an earlier request in the registry
C3_Witness ==
    /\ last # None /\ last.op = "generate" /\ last.status = 400
    /\ last.cause = "missing_question" /\ last.index = 1
    /\ Len(genRequests) = 2
    /\ DOMAIN quizzes = {1}

ReferencesStructuredOutput(reply) == reply.kind = "error" /\ (reply.rf \/ reply.jo)

\* C4: the first request asks for structured output; a second request is
\* issued exactly when the first failed with an error that references the
\* structured-output feature, and it has structured output off and the
\* JSON-only instruction appended; a generation whose final request failed
\* ends with an error; no generation issues more than 2 requests.
C4_FallbackProtocol ==
    /\ Len(genRequests) <= 2
    /\ Len(genReplies) <= Len(genRequests)
    /\ (pc = "idle") = (Len(genReplies) = Len(genRequests))
    /\ Len(genRequests) >= 1 => genRequests[1] = GenRequest(TRUE, FALSE)
    /\ (Len(genRequests) = 2) =
          (Len(genReplies) >= 1 /\ ReferencesStructuredOutput(genReplies[1]))
    /\ Len(genRequests) = 2 => genRequests[2] = GenRequest(FALSE, TRUE)
    /\ (/\ pc = "idle" /\ genReplies # <<>>
        /\ genReplies[Len(genReplies)].kind = "error"
        /\ last.op = "generate") => last.status # 200

\* the first request failed on "json_object", the retry produced the quiz
C4_Witness ==
    /\ pc = "idle" /\ Len(genRequests) = 2 /\ Len(genReplies) = 2
    /\ genReplies[1] = ErrorReply(FALSE, TRUE)
    /\ last.op = "generate" /\ last.status = 200

(***************************************************************************)
(* Properties of the scoring path (checked under SpecScoring).             *)
(***************************************************************************)
SubmitStep == pc = "idle" /\ pc' = "idle" /\ received' = received + 1

\* C10: a submission for a known quiz whose answer count differs from the
\* quiz's question count ends in the length-mismatch error with no answer
\* compared, no phrase requested and no attempt recorded; and calculate_score
\* called with lists of different lengths raises without a score.
C10_LengthMismatchRejected ==
    [][/\ (/\ SubmitStep
           /\ last'.request.quiz_id \in DOMAIN quizzes
           /\ Len(last'.request.answers) #
                 Len(quizzes[last'.request.quiz_id].questions)) =>
             /\ last'.status = 400
             /\ last'.detail =
                   MismatchDetail(quizzes[last'.request.quiz_id].questions,
                                  last'.request.answers)
             /\ last'.compared = 0
             /\ last'.phrase_requests = 0
             /\ "score" \notin DOMAIN last'
             /\ UNCHANGED <<attempts, userOrder, historyFile, clock>>
       /\ (/\ sInput' # None /\ sResult' # None
           /\ Len(sInput'.questions) # Len(sInput'.answers)) =>
             /\ ~sResult'.ok
             /\ "score" \notin DOMAIN sResult'
             /\ sResult'.compared = 0]_vars

\* a submission one answer short was rejected after an attempt was recorded
C10_Witness ==
    /\ last # None /\ last.op = "submit" /\ last.status = 400
    /\ Len(last.request.answers) = NumQuestions - 1
    /\ clock = 1

(***************************************************************************)
(* Properties of the submit handler (checked under Spec).                  *)
(***************************************************************************)
\* C11: a submission whose quiz_id is not in the registry ends in the
\* not-found error (404, 'Quiz not found'), which is neither the
\* length-mismatch error (400) nor an internal error (500) nor a score; no
\* answer is compared, no phrase is requested, and the registry, the attempt
\* history and the history file stay as they were.
C11_UnknownQuizNotFound ==
    [][(SubmitStep /\ last'.request.quiz_id \notin DOMAIN quizzes) =>
          /\ last'.status = 404
          /\ last'.detail = "Quiz not found"
          /\ last'.status \notin {200, 400, 500}
          /\ "score" \notin DOMAIN last'
          /\ last'.compared = 0
          /\ last'.phrase_requests = 0
          /\ UNCHANGED <<quizzes, stored, issued, attempts, userOrder,
                         historyFile, clock>>]_vars

\* an unknown quiz_id was submitted while the registry held a quiz and the
\* history an attempt
C11_Witness ==
    /\ last # None /\ last.op = "submit" /\ last.status = 404
    /\ quizzes # <<>> /\ last.request.quiz_id \notin DOMAIN quizzes
    /\ clock = 1

\* the four bands and their fixed templates, as the claims state them
ClaimBand(score, total) ==
    IF score = total THEN "perfect"
    ELSE IF score >= 6 THEN "decent"
    ELSE IF score >= 3 THEN "weak"
    ELSE "poor"

ClaimTemplate(band, topic) ==
    CASE band = "perfect" -> "Outstanding knowledge of " \o topic \o "!"
      [] band = "decent" -> "Not bad! You know your " \o topic \o "."
      [] band = "weak" -> "Time to rewatch " \o topic \o "!"
      [] band = "poor" -> "You might want to brush up on " \o topic \o "."

\* the answers of a submission that match the quiz's correct answers
RightAnswers(quiz, answers) ==
    {p \in 1..Len(answers) : answers[p] = quiz.questions[p].correct_answer}

\* C12: a submission for a known quiz with as many answers as questions
\* completes with the score and the per-question results whatever the
\* generator does on the phrase request and on its retry (at most two
\* requests); when the last request raised, or the response had no choice or
\* empty content, the phrase is the fallback template of the score's band
\* with the quiz's topic; when it returned text the phrase is that text
\* stripped.
C12_PhraseNeverFailsSubmit ==
    [][(/\ SubmitStep
        /\ last'.request.quiz_id \in DOMAIN quizzes
        /\ Len(last'.request.answers) =
               Len(quizzes[last'.request.quiz_id].questions)) =>
          LET quiz == quizzes[last'.request.quiz_id]
              answers == last'.request.answers
              right == RightAnswers(quiz, answers)
          IN  /\ last'.status = 200
              /\ last'.score = Cardinality(right)
              /\ last'.total = Len(quiz.questions)
              /\ Len(last'.results) = Len(quiz.questions)
              /\ \A p \in 1..Len(quiz.questions) :
                     /\ last'.results[p].is_correct = (p \in right)
                     /\ last'.results[p].selected = answers[p]
              /\ Len(last'.phrase_replies) \in 1..2
              /\ last'.phrase_requests = Len(last'.phrase_replies)
              /\ LET final == last'.phrase_replies[Len(last'.phrase_replies)]
                 IN  /\ final.kind \in {"error", "empty", "malformed"} =>
                           last'.performance_phrase =
                              ClaimTemplate(ClaimBand(last'.score, last'.total),
                                            quiz.topic)
                     /\ final.kind = "text" =>
                           last'.performance_phrase = Strip(final.text)]_vars

\* a submission scored 9 of 10 while the phrase request and its retry both
\* raised: the response carries the 'decent' template
C12_Witness ==
    /\ last # None /\ last.op = "submit" /\ last.status = 200
    /\ last.score = NumQuestions - 1
    /\ last.phrase_replies = <<ErrorReply(TRUE, FALSE), ErrorReply(FALSE, FALSE)>>
    /\ quizzes[last.request.quiz_id].topic = "Dune"
    /\ last.performance_phrase = "Not bad! You know your Dune."

(***************************************************************************)
(* Properties of generate_performance_phrase (checked under SpecPhrase).   *)
(***************************************************************************)
\* the level name the code gives each band
LevelOfBand(band) ==
    CASE band = "perfect" -> "Amazing"
      [] band = "decent" -> "Decent"
      [] band = "weak" -> "Poor"
      [] band = "poor" -> "Abysmal"

\* C13: for 0 <= score <= total the call classifies the score as perfect
\* when score = total, otherwise decent when score >= 6, otherwise weak when
\* score >= 3, otherwise poor, and when the generation fails the phrase it
\* returns is the template of exactly that band.
C13_BandClassification ==
    pResult # None =>
       LET band == ClaimBand(pInput.score, pInput.total)
           final == pResult.replies[Len(pResult.replies)]
       IN  /\ pResult.category = LevelOfBand(band)
           /\ final.kind # "text" =>
                 /\ pResult.phrase = ClaimTemplate(band, pInput.topic)
                 /\ \A other \in {"perfect", "decent", "weak", "poor"} \ {band} :
                        pResult.phrase # ClaimTemplate(other, pInput.topic)

\* a score of 6 of 10 (the lowest 'decent' one) got the 'decent' template
\* after the request failed
C13_Witness ==
    /\ pResult # None
    /\ pInput.score = 6 /\ pInput.total = 10
    /\ pInput.first = ErrorReply(FALSE, FALSE)
    /\ pResult.phrase = "Not bad! You know your " \o pInput.topic \o "."

(***************************************************************************)
(* Properties of the attempt history (checked under SpecHistory).          *)
(***************************************************************************)
ScoresStep == last' # last /\ last'.op = "scores"

\* C14: a query for a user returns exactly the attempts recorded for that
\* user, the most recently recorded first (timestamps strictly decreasing
\* along the returned list).
C14_NewestFirst ==
    [][ScoresStep =>
          LET list == last'.attempts
              mine == attempts[last'.user_name]
          IN  /\ Len(list) = Len(mine)
              /\ {list[k] : k \in 1..Len(list)} = {mine[k] : k \in 1..Len(mine)}
              /\ \A i, j \in 1..Len(list) :
                     i < j => list[i].timestamp > list[j].timestamp]_vars

(***************************************************************************)
(* Properties of the registry under concurrent requests (checked under     *)
(* SpecRegistry).                                                          *)
(***************************************************************************)
StoredBefore(n, quiz_id) == {k \in 1..n : stored[k].quiz_id = quiz_id}

Looked == {t \in 1..Len(workers) : workers[t].op = "submit" /\ workers[t].at = "done"}

\* C15: with the requests interleaved operation by operation, a get_quiz(id)
\* of a request that started after store_quiz(id, ...) returned observes the
\* stored (questions, topic); whatever a get_quiz(id) returns is what one
\* store_quiz call stored under that very id, whole; and every entry stored
\* stays in the registry as it was stored.
C15_RegistryLinearizable ==
    /\ \A t \in Looked :
          /\ \A k \in StoredBefore(workers[t].began, workers[t].quiz_id) :
                 workers[t].quiz_data = QuizData(stored[k].questions, stored[k].topic)
          /\ workers[t].quiz_data # None =>
                 \E k \in StoredBefore(Len(stored), workers[t].quiz_id) :
                    workers[t].quiz_data =
                       QuizData(stored[k].questions, stored[k].topic)
    /\ \A k \in 1..Len(stored) :
          /\ stored[k].quiz_id \in DOMAIN quizzes
          /\ quizzes[stored[k].quiz_id] =
                 QuizData(stored[k].questions, stored[k].topic)

\* two generate requests ran interleaved (both had their identifier before
\* either stored) and a submit that started after the first store returned
\* observed the first quiz while the second was in the registry too
C15_Witness ==
    /\ Len(workers) = 3 /\ Len(stored) = 2
    /\ workers[1].op = "generate" /\ workers[2].op = "generate"
    /\ stored[1].quiz_id = workers[2].quiz_id
    /\ workers[3].op = "submit" /\ workers[3].at = "done"
    /\ workers[3].began >= 1
    /\ workers[3].quiz_id = stored[1].quiz_id
    /\ workers[3].quiz_data = QuizData(stored[1].questions, stored[1].topic)
    /\ quizzes[stored[2].quiz_id] # quizzes[stored[1].quiz_id]

(***************************************************************************)
(* Properties of the JSON extraction (checked under SpecExtract).          *)
(***************************************************************************)
Extracted == eResult # None

Has(content, piece) == \E i \in 1..Len(content) : content[i] = piece

\* the marker followed by json occurs elsewhere than as the opening fence:
\* the closing fence is directly followed by the word json
JsonAfterClosing(input) ==
    /\ input.opening \in {<<Fence>>, <<Fence, "python">>}
    /\ input.trail # <<>> /\ input.trail[1] = "json"

C17_HistoryTracksScores ==
    [][IF SubmitStep /\ last'.status = 200
       THEN LET user == last'.request.user_name
                added == attempts'[user][Len(attempts'[user])]
            IN  /\ Len(attempts'[user]) = Len(attempts[user]) + 1
                /\ SubSeq(attempts'[user], 1, Len(attempts[user])) = attempts[user]
                /\ \A other \in Users \ {user} : attempts'[other] = attempts[other]
                /\ added.user_name = user
                /\ added.quiz_topic = quizzes[last'.request.quiz_id].topic
                /\ added.score = last'.score
                /\ added.total = 10
       ELSE attempts' = attempts]_vars

\* the same user got a score twice: two attempts in that user's list
C17_Witness ==
    /\ last # None /\ last.op = "submit" /\ last.status = 200
    /\ Len(attempts[last.request.user_name]) = 2
    /\ attempts[last.request.user_name][1].score = NumQuestions

(***************************************************************************)
(* Properties of the history file under concurrent submissions (checked    *)
(* under SpecSave).                                                        *)
(***************************************************************************)
AllSaved ==
    /\ Len(workers) >= 2
    /\ \A t \in 1..Len(workers) : workers[t].at = "done" /\ ~workers[t].error

InMemory == UNION {{attempts[u][k] : k \in 1..Len(attempts[u])} : u \in Users}

OnFile == {historyFile[k] : k \in 1..Len(historyFile)}

\* C18: once all the concurrent save_attempt calls have finished and none of
\* them met a write error, the history file holds every attempt the
\* in-memory history holds.
C18_FileHoldsHistory ==
    AllSaved => InMemory \subseteq OnFile

=============================================================================
